---- MODULE Spec2Model ----
(***************************************************************************)
(* Model of the Masterblog API backend (backend/backend_app.py): the       *)
(* posts.json store, the id assignment, the create / update / delete       *)
(* handlers and the sort -> paginate pipeline of GET /api/posts.            *)
(*                                                                         *)
(* Python values are tagged records: Str(s) is a str whose characters are  *)
(* the code points in the sequence s, Num(n) is an int, Null is None.      *)
(* A dict (a post, a JSON request body, the query string) is a function    *)
(* from its keys to values; "k in d" is k \in DOMAIN d.                    *)
(***************************************************************************)
EXTENDS Integers, Sequences, FiniteSets, TLC

\* ------------------------------------------------------------------ bounds
\* largest id a create may assign in the model
MaxId == 3
\* number of worker threads serving POST requests in SpecConc
NumThreads == 2
\* number of posts created before the queries of SpecQuery
QueryCreates == 2

\* ------------------------------------------------------------ Python values
Str(s) == [t |-> "str", v |-> s]
Num(n) == [t |-> "int", v |-> <<n>>]
Null == [t |-> "null", v |-> <<>>]

IsStr(x) == x.t = "str"

\* a tagged value, as opposed to a dict (no dict of the model has a key "t")
IsValue(x) == "t" \in DOMAIN x

\* Python truthiness: None, "", 0 and {} are false
Truthy(x) ==
    IF IsValue(x)
    THEN CASE x.t = "null" -> FALSE
           [] x.t = "str" -> x.v # <<>>
           [] OTHER -> x.v[1] # 0
    ELSE DOMAIN x # {}

\* d.get(k, default)
dict_get(d, k, default) == IF k \in DOMAIN d THEN d[k] ELSE default

IsDigit(c) == c \in 48..57
IsSpace(c) == c \in {9, 10, 11, 12, 13, 32}

\* str.lower() on ASCII text
str_lower(s) == [i \in 1..Len(s) |-> IF s[i] \in 65..90 THEN s[i] + 32 ELSE s[i]]

RECURSIVE DecimalDigits(_)
DecimalDigits(n) ==
    IF n < 10 THEN <<48 + n>> ELSE Append(DecimalDigits(n \div 10), 48 + (n % 10))

\* str(x): the text of a str, the decimal numeral of an int, "None" for None
py_str(x) ==
    CASE x.t = "str" -> x.v
      [] x.t = "int" -> IF x.v[1] < 0 THEN <<45>> \o DecimalDigits(0 - x.v[1])
                        ELSE DecimalDigits(x.v[1])
      [] OTHER -> <<78, 111, 110, 101>>

RECURSIVE LStrip(_)
LStrip(s) == IF s # <<>> /\ IsSpace(Head(s)) THEN LStrip(Tail(s)) ELSE s

RECURSIVE RStrip(_)
RStrip(s) ==
    IF s # <<>> /\ IsSpace(s[Len(s)]) THEN RStrip(SubSeq(s, 1, Len(s) - 1)) ELSE s

RECURSIVE NumeralValue(_, _)
NumeralValue(s, acc) ==
    IF s = <<>> THEN acc
    ELSE IF Head(s) = 95 THEN NumeralValue(Tail(s), acc)
    ELSE NumeralValue(Tail(s), 10 * acc + (Head(s) - 48))

\* digit (["_"] digit)*
IsNumeral(s) ==
    /\ s # <<>>
    /\ \A i \in 1..Len(s) :
         \/ IsDigit(s[i])
         \/ /\ s[i] = 95
            /\ i > 1 /\ i < Len(s)
            /\ IsDigit(s[i - 1]) /\ IsDigit(s[i + 1])

\* int(x) for an int or a str: [ok |-> FALSE] stands for ValueError
py_int(x) ==
    IF x.t = "int" THEN [ok |-> TRUE, n |-> x.v[1]]
    ELSE LET s == RStrip(LStrip(x.v))
             signed == s # <<>> /\ Head(s) \in {43, 45}
             body == IF signed THEN Tail(s) ELSE s
         IN IF IsNumeral(body)
            THEN [ok |-> TRUE,
                  n |-> IF signed /\ Head(s) = 45
                        THEN 0 - NumeralValue(body, 0)
                        ELSE NumeralValue(body, 0)]
            ELSE [ok |-> FALSE, n |-> 0]

\* math.ceil(a / b) for a >= 0, b >= 1
ceil_div(a, b) == (a + b - 1) \div b

\* lst[start:end] with 0-based bounds, 0 <= start <= end
py_slice(lst, start, end) ==
    LET hi == IF end < Len(lst) THEN end ELSE Len(lst)
    IN IF start >= hi THEN <<>> ELSE SubSeq(lst, start + 1, hi)

RECURSIVE Reverse(_)
Reverse(s) == IF s = <<>> THEN <<>> ELSE Append(Reverse(Tail(s)), Head(s))

\* sort keys are sequences of integers compared like Python tuples / strings
RECURSIVE LexLess(_, _)
LexLess(a, b) ==
    IF b = <<>> THEN FALSE
    ELSE IF a = <<>> THEN TRUE
    ELSE IF Head(a) # Head(b) THEN Head(a) < Head(b)
    ELSE LexLess(Tail(a), Tail(b))

\* insert pair p behind every pair whose key is not greater than p's
RECURSIVE InsertStable(_, _)
InsertStable(sorted_pairs, p) ==
    IF sorted_pairs = <<>> THEN <<p>>
    ELSE IF LexLess(p.key, Head(sorted_pairs).key)
         THEN <<p>> \o sorted_pairs
         ELSE <<Head(sorted_pairs)>> \o InsertStable(Tail(sorted_pairs), p)

RECURSIVE StableSort(_, _)
StableSort(pairs, acc) ==
    IF pairs = <<>> THEN acc
    ELSE StableSort(Tail(pairs), InsertStable(acc, Head(pairs)))

\* sorted() that sorts ascending and reverses the whole result for reverse
py_sorted_reversed_whole(lst, keys, is_reverse) ==
    LET pairs == [i \in 1..Len(lst) |-> [key |-> keys[i], item |-> lst[i]]]
        out == IF is_reverse
               THEN Reverse(StableSort(pairs, <<>>))
               ELSE StableSort(pairs, <<>>)
    IN [i \in 1..Len(lst) |-> out[i].item]

\* sorted(lst, key=..., reverse=...) where keys[i] is the key of lst[i].
\* list.sort keeps equal keys in their original order in both directions:
\* with reverse it reverses the list, sorts stably, and reverses the result.
py_sorted(lst, keys, is_reverse) ==
    LET pairs == [i \in 1..Len(lst) |-> [key |-> keys[i], item |-> lst[i]]]
        out == IF is_reverse
               THEN Reverse(StableSort(Reverse(pairs), <<>>))
               ELSE StableSort(pairs, <<>>)
    IN [i \in 1..Len(lst) |-> out[i].item]

\* ---------------------------------------------- datetime.strptime, %Y-%m-%d
DigitVal(c) == c - 48

IsLeap(y) == (y % 4 = 0 /\ y % 100 # 0) \/ y % 400 = 0

DaysInMonth(y, m) ==
    CASE m \in {4, 6, 9, 11} -> 30
      [] m = 2 -> IF IsLeap(y) THEN 29 ELSE 28
      [] OTHER -> 31

At(s, i) == IF i >= 1 /\ i <= Len(s) THEN s[i] ELSE 0

\* length of the month field at position 6: 1[0-2] | 0[1-9] | [1-9], then "-"
MonthLen(s) ==
    IF /\ At(s, 6) = 49 /\ At(s, 7) \in 48..50 /\ At(s, 8) = 45 THEN 2
    ELSE IF At(s, 6) = 48 /\ At(s, 7) \in 49..57 /\ At(s, 8) = 45 THEN 2
    ELSE IF At(s, 6) \in 49..57 /\ At(s, 7) = 45 THEN 1
    ELSE 0

\* day field at position p: 3[01] | [12]\d | 0[1-9] | [1-9] | " "[1-9]
DayField(s, p) ==
    IF At(s, p) = 51 /\ At(s, p + 1) \in 48..49
      THEN [len |-> 2, d |-> 30 + DigitVal(s[p + 1])]
    ELSE IF At(s, p) \in 49..50 /\ IsDigit(At(s, p + 1))
      THEN [len |-> 2, d |-> 10 * DigitVal(s[p]) + DigitVal(s[p + 1])]
    ELSE IF At(s, p) = 48 /\ At(s, p + 1) \in 49..57
      THEN [len |-> 2, d |-> DigitVal(s[p + 1])]
    ELSE IF At(s, p) \in 49..57
      THEN [len |-> 1, d |-> DigitVal(s[p])]
    ELSE IF At(s, p) = 32 /\ At(s, p + 1) \in 49..57
      THEN [len |-> 2, d |-> DigitVal(s[p + 1])]
    ELSE [len |-> 0, d |-> 0]

\* datetime.strptime(s, "%Y-%m-%d").date() as <<year, month, day>>;
\* [ok |-> FALSE] stands for ValueError
strptime_ymd(s) ==
    LET bad == [ok |-> FALSE, ymd |-> <<0, 0, 0>>]
        ml == MonthLen(s)
        y == NumeralValue(SubSeq(s, 1, 4), 0)
        m == NumeralValue(SubSeq(s, 6, 5 + ml), 0)
        df == DayField(s, 7 + ml)
    IN IF ~(Len(s) >= 5 /\ (\A i \in 1..4 : IsDigit(s[i])) /\ s[5] = 45) THEN bad
       ELSE IF ml = 0 THEN bad
       ELSE IF df.len = 0 \/ 6 + ml + df.len # Len(s) THEN bad
       ELSE IF y < 1 \/ df.d > DaysInMonth(y, m) THEN bad
       ELSE [ok |-> TRUE, ymd |-> <<y, m, df.d>>]

\* ------------------------------------------------------------ text literals
\* "First post about Python"
T_title1 == <<70, 105, 114, 115, 116, 32, 112, 111, 115, 116, 32, 97, 98, 111, 117,
              116, 32, 80, 121, 116, 104, 111, 110>>
\* "This is the first post. Python is great."
T_content1 == <<84, 104, 105, 115, 32, 105, 115, 32, 116, 104, 101, 32, 102, 105,
                114, 115, 116, 32, 112, 111, 115, 116, 46, 32, 80, 121, 116, 104,
                111, 110, 32, 105, 115, 32, 103, 114, 101, 97, 116, 46>>
\* "Alice Python"
T_author1 == <<65, 108, 105, 99, 101, 32, 80, 121, 116, 104, 111, 110>>
\* "2024-05-15"
T_date1 == <<50, 48, 50, 52, 45, 48, 53, 45, 49, 53>>
\* "Second post about Flask"
T_title2 == <<83, 101, 99, 111, 110, 100, 32, 112, 111, 115, 116, 32, 97, 98, 111,
              117, 116, 32, 70, 108, 97, 115, 107>>
\* "This is the second post. Flask makes APIs easy."
T_content2 == <<84, 104, 105, 115, 32, 105, 115, 32, 116, 104, 101, 32, 115, 101,
                99, 111, 110, 100, 32, 112, 111, 115, 116, 46, 32, 70, 108, 97,
                115, 107, 32, 109, 97, 107, 101, 115, 32, 65, 80, 73, 115, 32,
                101, 97, 115, 121, 46>>
\* "Bob Flask"
T_author2 == <<66, 111, 98, 32, 70, 108, 97, 115, 107>>
\* "2024-05-20"
T_date2 == <<50, 48, 50, 52, 45, 48, 53, 45, 50, 48>>
\* "Anonymous"
T_Anonymous == <<65, 110, 111, 110, 121, 109, 111, 117, 115>>
\* "1900-01-01"
T_1900 == <<49, 57, 48, 48, 45, 48, 49, 45, 48, 49>>
\* "id", "title", "content", "author", "date", "asc", "desc"
T_id == <<105, 100>>
T_title == <<116, 105, 116, 108, 101>>
T_content == <<99, 111, 110, 116, 101, 110, 116>>
T_author == <<97, 117, 116, 104, 111, 114>>
T_date == <<100, 97, 116, 101>>
T_asc == <<97, 115, 99>>
T_desc == <<100, 101, 115, 99>>

\* -------------------------------------------------------------------- state
VARIABLES
    posts_json,      \* the file at JSON_FILE_PATH
    DEFAULT_POSTS,   \* the module-level list object DEFAULT_POSTS
    POSTS,           \* the module-level global POSTS
    started,         \* the module body (line 108) has run
    last,            \* the request served last and its response
    pc,              \* SpecConc: position of each thread inside POST /api/posts
    t_data,          \* SpecConc: request.json of each thread
    t_new_post,      \* SpecConc: add_post's local new_post
    t_current_posts  \* SpecConc: add_post's local current_posts

vars == <<posts_json, DEFAULT_POSTS, POSTS, started, last,
          pc, t_data, t_new_post, t_current_posts>>

Threads == 1..NumThreads

\* the literal the module assigns to DEFAULT_POSTS
DEFAULT_POSTS_literal ==
    << [id |-> 1, title |-> Str(T_title1), content |-> Str(T_content1),
        author |-> Str(T_author1), date |-> Str(T_date1)],
       [id |-> 2, title |-> Str(T_title2), content |-> Str(T_content2),
        author |-> Str(T_author2), date |-> Str(T_date2)] >>

\* -------------------------------------------------------------------- Store
\* contents of posts.json: no file, a file of zero characters, text that is
\* not JSON, or the JSON text of a list of posts
NoFile == [state |-> "absent", doc |-> <<>>]
EmptyFile == [state |-> "empty", doc |-> <<>>]
MalformedFile == [state |-> "malformed", doc |-> <<>>]

\* json.dumps(posts, indent=4)
json_dumps(posts) == [state |-> "json", doc |-> posts]

\* json.loads(content); [ok |-> FALSE] stands for JSONDecodeError
json_loads(content) ==
    IF content.state = "json" THEN [ok |-> TRUE, doc |-> content.doc]
    ELSE [ok |-> FALSE, doc |-> <<>>]

\* the file after save_posts(posts)
save_posts(posts) == json_dumps(posts)

\* load_posts() on file f while DEFAULT_POSTS holds dflt.  ret is the list
\* returned, file the file afterwards, writes the number of save_posts calls,
\* alias tells that ret is the DEFAULT_POSTS object itself and not a copy.
load_posts(f, dflt) ==
    IF f.state = "absent"
    THEN [ret |-> dflt, file |-> save_posts(dflt), writes |-> 1, alias |-> TRUE]
    ELSE IF f.state = "empty"
    THEN [ret |-> <<>>, file |-> f, writes |-> 0, alias |-> FALSE]
    ELSE LET j == json_loads(f)
         IN [ret |-> IF j.ok THEN j.doc ELSE <<>>,
             file |-> f, writes |-> 0, alias |-> FALSE]

\* ------------------------------------------------------------ id assignment
RECURSIVE MaxOf(_)
MaxOf(S) ==
    LET x == CHOOSE y \in S : TRUE
    IN IF Cardinality(S) = 1 THEN x
       ELSE LET m == MaxOf(S \ {x}) IN IF x > m THEN x ELSE m

Ids(posts) == {posts[i].id : i \in 1..Len(posts)}

\* the id derived from the number of posts instead of the greatest id
next_id_by_length(posts) == Len(posts) + 1

\* max(post["id"] for post in posts) + 1 if posts else 1
next_id(posts) == IF posts # <<>> THEN MaxOf(Ids(posts)) + 1 ELSE 1

\* get_new_id(): loads the posts and derives the id from them
get_new_id(f, dflt) ==
    LET l == load_posts(f, dflt)
    IN [id |-> next_id(l.ret), file |-> l.file, writes |-> l.writes]

\* the dict add_post builds from the request body
new_post_of(new_id, data, today) ==
    [id |-> new_id,
     title |-> dict_get(data, "title", Null),
     content |-> dict_get(data, "content", Null),
     author |-> dict_get(data, "author", Str(T_Anonymous)),
     date |-> dict_get(data, "date", Str(today))]

\* add_post(data): new id, second load, append, save
add_post(f, dflt, data, today) ==
    LET g == get_new_id(f, dflt)
        new_post == new_post_of(g.id, data, today)
        l == load_posts(g.file, dflt)
        current_posts == Append(l.ret, new_post)
    IN [new_post |-> new_post,
        file |-> save_posts(current_posts),
        dflt |-> IF l.alias THEN current_posts ELSE dflt,
        writes |-> g.writes + l.writes + 1]

\* ---------------------------------------------------------------- responses
NoBody == [kind |-> "none", total_posts |-> 0, total_pages |-> 0,
           current_page |-> 0, per_page |-> 0, results |-> <<>>]
ErrorBody == [NoBody EXCEPT !.kind = "error"]
MessageBody == [NoBody EXCEPT !.kind = "message"]
ExceptionBody == [NoBody EXCEPT !.kind = "exception"]
PostBody(post) == [NoBody EXCEPT !.kind = "post", !.results = <<post>>]
ListBody(posts) == [NoBody EXCEPT !.kind = "list", !.results = posts]

\* what one handler call did: the response, the file, DEFAULT_POSTS and POSTS
\* afterwards, the number of save_posts calls, and the list its first
\* load_posts returned
Outcome(status, body, f, dflt, posts, writes, loaded) ==
    [status |-> status, body |-> body, file |-> f, dflt |-> dflt,
     POSTS |-> posts, writes |-> writes, loaded |-> loaded]

\* ------------------------------------------------------ POST /api/posts
\* the check of line 125 without its test for "content"
body_accepted_title_only(data) ==
    ~(~Truthy(data) \/ "title" \notin DOMAIN data)

\* the request body passes the check of line 125
body_accepted(data) ==
    ~(~Truthy(data) \/ "title" \notin DOMAIN data \/ "content" \notin DOMAIN data)

handle_posts_POST(f, dflt, data, today) ==
    LET l == load_posts(f, dflt)
    IN IF ~body_accepted(data)
       THEN Outcome(400, ErrorBody, l.file, dflt, l.ret, l.writes, l.ret)
       ELSE LET a == add_post(l.file, dflt, data, today)
            IN Outcome(201, PostBody(a.new_post), a.file, a.dflt, l.ret,
                       l.writes + a.writes, l.ret)

\* --------------------------------------------- DELETE /api/posts/<post_id>
\* index of the first post with that id, 0 when there is none
find_post(posts, post_id) ==
    IF \E i \in 1..Len(posts) : posts[i].id = post_id
    THEN CHOOSE i \in 1..Len(posts) :
           /\ posts[i].id = post_id
           /\ \A j \in 1..(i - 1) : posts[j].id # post_id
    ELSE 0

\* lst.remove(x): drops the first element equal to x
list_remove(lst, x) ==
    LET i == CHOOSE k \in 1..Len(lst) :
               lst[k] = x /\ \A j \in 1..(k - 1) : lst[j] # x
    IN SubSeq(lst, 1, i - 1) \o SubSeq(lst, i + 1, Len(lst))

\* delete_post saving the list before it looks at the outcome of the search
delete_post_saves_first(f, dflt, post_id) ==
    LET l == load_posts(f, dflt)
        i == find_post(l.ret, post_id)
        remaining == list_remove(l.ret, l.ret[i])
    IN IF i = 0
       THEN Outcome(404, ErrorBody, save_posts(l.ret), dflt, l.ret, l.writes + 1, l.ret)
       ELSE Outcome(200, MessageBody, save_posts(remaining),
                    IF l.alias THEN remaining ELSE dflt,
                    remaining, l.writes + 1, l.ret)

delete_post(f, dflt, post_id) ==
    LET l == load_posts(f, dflt)
        i == find_post(l.ret, post_id)
        remaining == list_remove(l.ret, l.ret[i])
    IN IF i = 0
       THEN Outcome(404, ErrorBody, l.file, dflt, l.ret, l.writes, l.ret)
       ELSE Outcome(200, MessageBody, save_posts(remaining),
                    IF l.alias THEN remaining ELSE dflt,
                    remaining, l.writes + 1, l.ret)

\* ------------------------------------------------ PUT /api/posts/<post_id>
UpdatableFields == <<"title", "content", "author", "date">>

\* one of the four "if k in data and post.get(k) != data[k]" blocks
\* (title and content are read with post[k], author and date with post.get(k))
field_changes(post, data, k) ==
    /\ k \in DOMAIN data
    /\ (IF k \in {"author", "date"} THEN dict_get(post, k, Null) ELSE post[k]) # data[k]

\* the post after the blocks of lines 366-391
apply_update(post, data) ==
    IF ~Truthy(data) THEN post
    ELSE [k \in DOMAIN post |->
            IF k \in {"title", "content", "author", "date"}
               /\ field_changes(post, data, k)
            THEN data[k] ELSE post[k]]

\* changes_made set by every non-empty payload
changes_made_any_payload(post, data) == Truthy(data)

changes_made(post, data) ==
    /\ Truthy(data)
    /\ \E n \in 1..Len(UpdatableFields) : field_changes(post, data, UpdatableFields[n])

update_post(f, dflt, post_id, data) ==
    LET l == load_posts(f, dflt)
        i == find_post(l.ret, post_id)
        post_to_update == apply_update(l.ret[i], data)
        posts == [l.ret EXCEPT ![i] = post_to_update]
        changed == changes_made(l.ret[i], data)
    IN IF i = 0
       THEN Outcome(404, ErrorBody, l.file, dflt, l.ret, l.writes, l.ret)
       ELSE Outcome(200, PostBody(post_to_update),
                    IF changed THEN save_posts(posts) ELSE l.file,
                    IF l.alias THEN posts ELSE dflt,
                    posts,
                    l.writes + (IF changed THEN 1 ELSE 0), l.ret)

\* ------------------------------------------------------- GET /api/posts
valid_sort_fields == {Str(T_id), Str(T_title), Str(T_content), Str(T_author), Str(T_date)}

\* the dict key a valid sort field names
FieldKey(sort_by) ==
    CASE sort_by = Str(T_id) -> "id"
      [] sort_by = Str(T_title) -> "title"
      [] sort_by = Str(T_content) -> "content"
      [] sort_by = Str(T_author) -> "author"
      [] OTHER -> "date"

\* date_sort_key(post): strptime raises TypeError for a date that is no str,
\* and only ValueError is caught
date_sort_key(post) ==
    LET date_str == dict_get(post, "date", Str(T_1900))
        parsed == strptime_ymd(date_str.v)
    IN IF ~IsStr(date_str) THEN [raises |-> TRUE, key |-> <<>>]
       ELSE [raises |-> FALSE,
             key |-> IF parsed.ok THEN parsed.ymd ELSE <<1900, 1, 1>>]

\* lambda post: post.get("id", 0)
id_sort_key(post) == <<dict_get(post, "id", 0)>>

\* lambda post: str(post.get(sort_by, "")).lower()
text_sort_key(post, sort_by) ==
    str_lower(py_str(dict_get(post, FieldKey(sort_by), Str(<<>>))))

sort_keys(posts, sort_by) ==
    [i \in 1..Len(posts) |->
        IF sort_by = Str(T_date) THEN date_sort_key(posts[i]).key
        ELSE IF sort_by = Str(T_id) THEN id_sort_key(posts[i])
        ELSE text_sort_key(posts[i], sort_by)]

\* the sorting block of lines 152-226: a 400, an uncaught exception, or the
\* list the pagination block receives
sort_stage(posts, sort_by, direction) ==
    IF ~(Truthy(sort_by) \/ Truthy(direction))
    THEN [status |-> 200, posts_list |-> posts]
    ELSE IF (Truthy(sort_by) /\ ~Truthy(direction))
            \/ (Truthy(direction) /\ ~Truthy(sort_by))
    THEN [status |-> 400, posts_list |-> <<>>]
    ELSE IF sort_by \notin valid_sort_fields
    THEN [status |-> 400, posts_list |-> <<>>]
    ELSE IF direction \notin {Str(T_asc), Str(T_desc)}
    THEN [status |-> 400, posts_list |-> <<>>]
    ELSE IF sort_by = Str(T_date)
            /\ \E i \in 1..Len(posts) : date_sort_key(posts[i]).raises
    THEN [status |-> 500, posts_list |-> <<>>]
    ELSE [status |-> 200,
          posts_list |-> py_sorted(posts, sort_keys(posts, sort_by),
                                   direction = Str(T_desc))]

\* the pagination block of lines 228-296 applied to posts_list
paginate(posts_list, all_posts, sort_by, direction, page_arg, per_page_arg) ==
    IF ~(Truthy(sort_by) \/ Truthy(direction) \/ Truthy(page_arg) \/ Truthy(per_page_arg))
    THEN [status |-> 200, body |-> ListBody(all_posts)]
    ELSE LET page0 == IF page_arg = Null THEN Num(1) ELSE page_arg
             per_page0 == IF per_page_arg = Null
                          THEN Num(IF posts_list # <<>> THEN Len(posts_list) ELSE 10)
                          ELSE per_page_arg
             page == py_int(page0)
             per_page == py_int(per_page0)
             total_posts == Len(posts_list)
             start_index == (page.n - 1) * per_page.n
             end_index == start_index + per_page.n
         IN IF ~(page.ok /\ per_page.ok) THEN [status |-> 400, body |-> ErrorBody]
            ELSE IF page.n < 1 \/ per_page.n < 1 THEN [status |-> 400, body |-> ErrorBody]
            ELSE [status |-> 200,
                  body |-> [kind |-> "page",
                            total_posts |-> total_posts,
                            total_pages |-> ceil_div(total_posts, per_page.n),
                            current_page |-> page.n,
                            per_page |-> per_page.n,
                            results |-> py_slice(posts_list, start_index, end_index)]]

handle_posts_GET(f, dflt, args) ==
    LET l == load_posts(f, dflt)
        sort_by == dict_get(args, "sort", Null)
        direction == dict_get(args, "direction", Null)
        st == sort_stage(l.ret, sort_by, direction)
        pg == paginate(st.posts_list, l.ret, sort_by, direction,
                       dict_get(args, "page", Null), dict_get(args, "per_page", Null))
    IN IF st.status = 400
       THEN Outcome(400, ErrorBody, l.file, dflt, l.ret, l.writes, l.ret)
       ELSE IF st.status = 500
       THEN Outcome(500, ExceptionBody, l.file, dflt, l.ret, l.writes, l.ret)
       ELSE Outcome(pg.status, pg.body, l.file, dflt, l.ret, l.writes, l.ret)

\* ------------------------------------------------------------------- inputs
\* "a", "A", "c", "soon", "1800-01-01", "rank", "up", "x"
T_a == <<97>>
T_A == <<65>>
T_c == <<99>>
T_soon == <<115, 111, 111, 110>>
T_1800 == <<49, 56, 48, 48, 45, 48, 49, 45, 48, 49>>
T_rank == <<114, 97, 110, 107>>
T_up == <<117, 112>>
T_x == <<120>>
\* the day datetime.now() reports: "2026-11-02"
T_today == <<50, 48, 50, 54, 45, 49, 49, 45, 48, 50>>
Todays == {T_today}

EmptyDict == [k \in {} |-> Null]

\* request bodies of POST /api/posts that pass the check of line 125
AcceptedBodies ==
    { [title |-> Str(T_a), content |-> Str(T_c)],
      [title |-> Str(<<>>), content |-> Str(T_c), id |-> Num(1)] }

\* request bodies it rejects: no JSON body, title only, content only
RejectedBodies ==
    { Null, [title |-> Str(T_a)], [content |-> Str(T_c), author |-> Str(T_a)] }

CreateBodies == AcceptedBodies \cup RejectedBodies

\* request bodies of PUT /api/posts/<id>
UpdateBodies ==
    { EmptyDict,
      [id |-> Num(3)],
      [title |-> Str(T_title1), author |-> Str(T_Anonymous), id |-> Num(3)] }

\* ids named in the URL of PUT and DELETE
TargetIds == 1..MaxId

QueryDict(sort, direction, page, per_page) ==
    LET given == {<<"sort", sort>>, <<"direction", direction>>,
                  <<"page", page>>, <<"per_page", per_page>>}
        keys == {g[1] : g \in {h \in given : h[2] # Null}}
    IN [k \in keys |-> (CHOOSE g \in given : g[1] = k)[2]]

\* query strings sent during the life of the store
LifecycleQueries ==
    { EmptyDict,
      QueryDict(Str(T_rank), Str(T_asc), Null, Null),
      QueryDict(Str(T_id), Null, Null, Null),
      QueryDict(Null, Null, Str(<<48>>), Null) }

\* query strings of SpecQuery: every combination of these values, Null
\* standing for a parameter that is not in the query string
SortArgs == {Null, Str(<<>>), Str(T_id), Str(T_title), Str(T_date), Str(T_rank)}
DirectionArgs == {Null, Str(<<>>), Str(T_asc), Str(T_desc), Str(T_up)}
PageArgs == {Null, Str(<<>>), Str(<<49>>), Str(<<50>>), Str(<<51>>), Str(<<48>>), Str(T_x)}
PerPageArgs == {Null, Str(<<>>), Str(<<49>>), Str(<<50>>), Str(<<48>>), Str(<<49, 46, 53>>)}

AllQueries ==
    { QueryDict(s, d, p, pp) :
        s \in SortArgs, d \in DirectionArgs, p \in PageArgs, pp \in PerPageArgs }

\* request bodies that created the posts the queries of SpecQuery run on
QueryBodies ==
    { [title |-> Str(T_a), content |-> Str(T_c)],
      [title |-> Str(T_A), content |-> Str(T_c), date |-> Str(T_1800)],
      [title |-> Str(T_a), content |-> Str(T_c), date |-> Str(T_soon)],
      [title |-> Str(T_a), content |-> Str(T_c), date |-> Num(5)] }

\* ---------------------------------------------------------------- lifecycle
NoRequest == [op |-> "none", status |-> 0, post_id |-> 0, data |-> Null,
              args |-> EmptyDict, body |-> NoBody, writes |-> 0,
              absent |-> FALSE, loaded |-> <<>>]

Init ==
    /\ posts_json \in {NoFile, EmptyFile, MalformedFile,
                       json_dumps(DEFAULT_POSTS_literal)}
    /\ DEFAULT_POSTS = DEFAULT_POSTS_literal
    /\ POSTS = <<>>
    /\ started = FALSE
    /\ last = NoRequest
    /\ pc = [t \in Threads |-> "idle"]
    /\ t_data = [t \in Threads |-> Null]
    /\ t_new_post = [t \in Threads |-> Null]
    /\ t_current_posts = [t \in Threads |-> [posts |-> <<>>, alias |-> FALSE]]

thread_vars == <<pc, t_data, t_new_post, t_current_posts>>

\* line 108: POSTS = load_posts() when the module is imported
Startup ==
    /\ ~started
    /\ LET l == load_posts(posts_json, DEFAULT_POSTS)
       IN /\ posts_json' = l.file
          /\ POSTS' = l.ret
    /\ started' = TRUE
    /\ UNCHANGED <<DEFAULT_POSTS, last, thread_vars>>

\* one request served from start to end
Serve(op, post_id, data, args, out) ==
    /\ started
    /\ posts_json' = out.file
    /\ DEFAULT_POSTS' = out.dflt
    /\ POSTS' = out.POSTS
    /\ last' = [op |-> op, status |-> out.status, post_id |-> post_id,
                data |-> data, args |-> args, body |-> out.body,
                writes |-> out.writes,
                absent |-> posts_json.state = "absent",
                loaded |-> out.loaded]
    /\ UNCHANGED <<started, thread_vars>>

CreatePost ==
    \E data \in CreateBodies, today \in Todays :
        LET out == handle_posts_POST(posts_json, DEFAULT_POSTS, data, today)
        IN /\ out.status = 201 => out.body.results[1].id <= MaxId
           /\ Serve("create", 0, data, EmptyDict, out)

UpdatePost ==
    \E post_id \in TargetIds, data \in UpdateBodies :
        Serve("update", post_id, data, EmptyDict,
              update_post(posts_json, DEFAULT_POSTS, post_id, data))

DeletePost ==
    \E post_id \in TargetIds :
        Serve("delete", post_id, Null, EmptyDict,
              delete_post(posts_json, DEFAULT_POSTS, post_id))

GetPosts ==
    \E args \in LifecycleQueries :
        Serve("get", 0, Null, args, handle_posts_GET(posts_json, DEFAULT_POSTS, args))

\* posts.json is deleted from outside the process
RemoveFile ==
    /\ started
    /\ posts_json.state # "absent"
    /\ posts_json' = NoFile
    /\ last' = [NoRequest EXCEPT !.op = "remove"]
    /\ UNCHANGED <<DEFAULT_POSTS, POSTS, started, thread_vars>>

Next == Startup \/ CreatePost \/ UpdatePost \/ DeletePost \/ GetPosts \/ RemoveFile

Spec == Init /\ [][Next]_vars

\* ------------------------------------------------------------ query pipeline
\* the file after POST requests with the given bodies, served one at a time
RECURSIVE CreatedFile(_, _)
CreatedFile(f, bodies) ==
    IF bodies = <<>> THEN f
    ELSE CreatedFile(
            handle_posts_POST(f, DEFAULT_POSTS_literal, Head(bodies), T_today).file,
            Tail(bodies))

QueryFiles ==
    { CreatedFile(f, bodies) :
        f \in {NoFile, EmptyFile, json_dumps(DEFAULT_POSTS_literal)},
        bodies \in UNION {[1..n -> QueryBodies] : n \in 0..QueryCreates} }

InitQuery ==
    /\ posts_json \in QueryFiles
    /\ DEFAULT_POSTS = DEFAULT_POSTS_literal
    /\ POSTS = <<>>
    /\ started = TRUE
    /\ last = NoRequest
    /\ pc = [t \in Threads |-> "idle"]
    /\ t_data = [t \in Threads |-> Null]
    /\ t_new_post = [t \in Threads |-> Null]
    /\ t_current_posts = [t \in Threads |-> [posts |-> <<>>, alias |-> FALSE]]

\* one GET /api/posts per behaviour
Query ==
    /\ last.op = "none"
    /\ \E args \in AllQueries :
        Serve("get", 0, Null, args, handle_posts_GET(posts_json, DEFAULT_POSTS, args))

NextQuery == Query

SpecQuery == InitQuery /\ [][NextQuery]_vars

\* ------------------------------------------- concurrent POST /api/posts
\* Each thread serves one request.
\* lines 118-130: POSTS = load_posts(), then the check of the request body
c_handle_posts(t) ==
    /\ started
    /\ pc[t] = "idle"
    /\ \E data \in CreateBodies :
         LET l == load_posts(posts_json, DEFAULT_POSTS)
         IN /\ posts_json' = l.file
            /\ POSTS' = l.ret
            /\ t_data' = [t_data EXCEPT ![t] = data]
            /\ pc' = [pc EXCEPT ![t] = IF body_accepted(data) THEN "get_new_id" ELSE "done"]
    /\ UNCHANGED <<DEFAULT_POSTS, started, last, t_new_post, t_current_posts>>

\* lines 91-98: new_post is built with the id get_new_id() returns
c_get_new_id(t) ==
    /\ pc[t] = "get_new_id"
    /\ \E today \in Todays :
         LET g == get_new_id(posts_json, DEFAULT_POSTS)
         IN /\ posts_json' = g.file
            /\ t_new_post' = [t_new_post EXCEPT ![t] = new_post_of(g.id, t_data[t], today)]
    /\ pc' = [pc EXCEPT ![t] = "load_posts"]
    /\ UNCHANGED <<DEFAULT_POSTS, POSTS, started, last, t_data, t_current_posts>>

\* line 100: current_posts = load_posts()
c_load_posts(t) ==
    /\ pc[t] = "load_posts"
    /\ LET l == load_posts(posts_json, DEFAULT_POSTS)
       IN /\ posts_json' = l.file
          /\ t_current_posts' = [t_current_posts EXCEPT ![t] =
                                   [posts |-> l.ret, alias |-> l.alias]]
    /\ pc' = [pc EXCEPT ![t] = "append"]
    /\ UNCHANGED <<DEFAULT_POSTS, POSTS, started, last, t_data, t_new_post>>

\* lines 101-102 and 78: the append, then write_text opens the file for
\* writing, which truncates it
c_append_open(t) ==
    /\ pc[t] = "append"
    /\ LET cur == Append(t_current_posts[t].posts, t_new_post[t])
       IN /\ t_current_posts' = [t_current_posts EXCEPT ![t].posts = cur]
          /\ DEFAULT_POSTS' = IF t_current_posts[t].alias THEN cur ELSE DEFAULT_POSTS
    /\ posts_json' = EmptyFile
    /\ pc' = [pc EXCEPT ![t] = "write"]
    /\ UNCHANGED <<POSTS, started, last, t_data, t_new_post>>

\* line 78: write_text writes the JSON text and closes the file
c_write(t) ==
    /\ pc[t] = "write"
    /\ posts_json' = save_posts(t_current_posts[t].posts)
    /\ pc' = [pc EXCEPT ![t] = "done"]
    /\ UNCHANGED <<DEFAULT_POSTS, POSTS, started, last, t_data, t_new_post, t_current_posts>>

NextConc ==
    \/ Startup
    \/ \E t \in Threads : c_handle_posts(t)
    \/ \E t \in Threads : c_get_new_id(t)
    \/ \E t \in Threads : c_load_posts(t)
    \/ \E t \in Threads : c_append_open(t)
    \/ \E t \in Threads : c_write(t)

SpecConc == Init /\ [][NextConc]_vars

\* =================================================================== claims
\* the Collection an operation starting in the current state loads
Collection == load_posts(posts_json, DEFAULT_POSTS).ret
CollectionAfter == load_posts(posts_json', DEFAULT_POSTS').ret

IsDict(d) == ~IsValue(d)
FileExists == posts_json.state # "absent"

\* ----------------------------------------------------------------------- C1
DistinctPositiveIds(posts) ==
    /\ \A i \in 1..Len(posts) : posts[i].id \in Nat \ {0}
    /\ \A i, j \in 1..Len(posts) : i # j => posts[i].id # posts[j].id

IdSeq(posts) == [i \in 1..Len(posts) |-> posts[i].id]

CreateAssignsFreshId ==
    (last'.op = "create" /\ last'.status = 201) =>
        LET new_id == last'.body.results[1].id
        IN /\ \A i \in 1..Len(Collection) : new_id > Collection[i].id
           /\ Collection = <<>> => new_id = 1
           /\ IdSeq(CollectionAfter) = Append(IdSeq(Collection), new_id)

UpdateKeepsIds ==
    (last'.op = "update" /\ last'.status = 200) =>
        /\ IdSeq(CollectionAfter) = IdSeq(Collection)
        /\ last'.body.results[1].id = last'.post_id

\* C1: in every reachable state of the store, served one request at a time
\* from an absent, empty, malformed or seeded file, the ids of the persisted
\* Collection are pairwise distinct positive integers; every successful
\* create returns an id greater than every id of the Collection it loaded
\* (1 when that Collection is empty), whatever "id" the request body
\* carries; an update leaves every id as it was.
C1_IdDiscipline ==
    /\ [](DistinctPositiveIds(posts_json.doc))
    /\ [][CreateAssignsFreshId /\ UpdateKeepsIds]_vars

\* a create whose body carried "id": 1 was served on the two seed posts and
\* returned id 3
C1_Witness ==
    /\ last.op = "create" /\ last.status = 201
    /\ "id" \in DOMAIN last.data
    /\ last.data.id = Num(1)
    /\ last.body.results[1].id = 3
    /\ Len(last.loaded) = 2

\* ----------------------------------------------------------------------- C2
HasBothKeys(d) == IsDict(d) /\ "title" \in DOMAIN d /\ "content" \in DOMAIN d

PresentNonEmpty(d) ==
    /\ HasBothKeys(d)
    /\ d.title \notin {Null, Str(<<>>)}
    /\ d.content \notin {Null, Str(<<>>)}

\* C2 as stated: create succeeds only when title and content are present and
\* non-empty; otherwise it answers 400 and appends nothing.
C2_NonEmptyRequired ==
    [][last'.op = "create" =>
         /\ last'.status = 201 => PresentNonEmpty(last'.data)
         /\ ~PresentNonEmpty(last'.data) =>
               (last'.status = 400 /\ CollectionAfter = Collection)]_vars

\* C2 amended: create succeeds exactly when the request body is a mapping
\* that has both keys title and content, whatever their values (the empty
\* string included), and then appends one Post carrying those values; for
\* every body in which the key title or the key content is absent it
\* answers 400 and the Collection is left as it was.
C2_KeysDecide ==
    [][last'.op = "create" =>
         IF HasBothKeys(last'.data)
         THEN /\ last'.status = 201
              /\ CollectionAfter = Append(Collection, last'.body.results[1])
              /\ last'.body.results[1].title = last'.data.title
              /\ last'.body.results[1].content = last'.data.content
         ELSE /\ last'.status = 400
              /\ CollectionAfter = Collection]_vars

\* a create with an empty title was accepted and persisted
C2_Witness ==
    /\ last.op = "create" /\ last.status = 201
    /\ last.data.title = Str(<<>>)
    /\ posts_json.state = "json"
    /\ posts_json.doc[Len(posts_json.doc)].title = Str(<<>>)

\* ----------------------------------------------------------------------- C3
\* C3 as stated: an operation that ends in 400 or 404 leaves the persisted
\* state exactly as it was, also when no file exists.
C3_ErrorsNeverWrite ==
    [][last'.status \in {400, 404} => posts_json' = posts_json]_vars

\* C3 amended: an operation that ends in 400 or 404 performs no write and
\* leaves the persisted state as it was whenever a persisted file exists
\* (empty, malformed or valid); when no file exists, the load at its start
\* writes the seed list once, and that is its only write.
C3_ErrorsWriteOnlySeed ==
    [][last'.status \in {400, 404} =>
         IF FileExists
         THEN posts_json' = posts_json /\ last'.writes = 0
         ELSE posts_json' = json_dumps(DEFAULT_POSTS) /\ last'.writes = 1]_vars

\* a delete of an unknown id answered 404 on a malformed file and left it
C3_Witness ==
    /\ last.op = "delete" /\ last.status = 404
    /\ ~last.absent /\ last.writes = 0
    /\ posts_json.state = "malformed"

\* ----------------------------------------------------------------------- C8
FourFields == {"title", "content", "author", "date"}

\* the payload names one of the four fields with a value other than old's
Differs(old, d) ==
    IsDict(d) /\ \E k \in FourFields \cap DOMAIN d : d[k] # old[k]

\* old with the payload's values for the fields the payload names
Overwritten(old, d) ==
    [k \in DOMAIN old |->
        IF IsDict(d) /\ k \in FourFields \cap DOMAIN d THEN d[k] ELSE old[k]]

UpdateEffect(noop_writes) ==
    (last'.op = "update" /\ last'.status = 200) =>
        LET i == CHOOSE n \in 1..Len(Collection) : Collection[n].id = last'.post_id
            old == Collection[i]
            seeding == IF FileExists THEN 0 ELSE 1
        IN IF ~Differs(old, last'.data)
           THEN /\ last'.writes = noop_writes
                /\ last'.body.results[1] = old
                /\ CollectionAfter = Collection
           ELSE /\ last'.writes = seeding + 1
                /\ last'.body.results[1] = Overwritten(old, last'.data)
                /\ posts_json' = json_dumps([Collection EXCEPT ![i] =
                                                Overwritten(old, last'.data)])

\* C8 as stated: an update that changes none of title, content, author, date
\* performs zero Store writes and returns 200 with the unchanged Post; an
\* update that changes one of them saves, and the persisted Post then has
\* the new values for the fields present and the old values for the others.
C8_NoOpUpdateNeverWrites == [][UpdateEffect(0)]_vars

\* C8 amended: an update that changes none of the four fields performs zero
\* Store writes when a persisted file exists at its start, and exactly one
\* (the seeding write of its load) when none exists; it returns 200 with the
\* unchanged Post either way.  The second half holds as stated.
C8_NoOpUpdateWritesOnlySeed ==
    [][UpdateEffect(IF FileExists THEN 0 ELSE 1)]_vars

\* an update resending the stored title and author was served on an existing
\* file without a write
C8_Witness ==
    /\ last.op = "update" /\ last.status = 200
    /\ ~last.absent /\ last.writes = 0
    /\ "title" \in DOMAIN last.data
    /\ last.body.results[1].title = last.data.title
    /\ last.body.results[1].author = last.data.author

\* ----------------------------------------------------------------------- C9
\* C9: every request that finds no persisted file loads exactly the two
\* original seed Posts, whatever requests were served before it.
C9_SeedIsOriginal ==
    (last.op \in {"create", "update", "delete", "get"} /\ last.absent) =>
        last.loaded = DEFAULT_POSTS_literal

\* ------------------------------------------------------------ query claims
ArgGiven(k) == k \in DOMAIN last.args
Arg(k) == dict_get(last.args, k, Null)

\* position of a post in the loaded Collection
PosOf(post) == CHOOSE i \in 1..Len(last.loaded) : last.loaded[i] = post

SameKey(a, b) == ~LexLess(a, b) /\ ~LexLess(b, a)

SortKey(post) ==
    IF Arg("sort") = Str(T_date) THEN date_sort_key(post).key
    ELSE IF Arg("sort") = Str(T_id) THEN id_sort_key(post)
    ELSE text_sort_key(post, Arg("sort"))

\* a query that sorts and leaves pagination to its defaults was answered
SortedAnswer(direction) ==
    /\ last.op = "get" /\ last.status = 200
    /\ DOMAIN last.args = {"sort", "direction"}
    /\ Arg("direction") = Str(direction)

IsPermutationOfLoaded(r) ==
    /\ Len(r) = Len(last.loaded)
    /\ {r[i] : i \in 1..Len(r)} = {last.loaded[i] : i \in 1..Len(last.loaded)}

\* ----------------------------------------------------------------------- C5
\* the answer a query with direction=asc gets in the current state
AscendingResults ==
    handle_posts_GET(posts_json, DEFAULT_POSTS,
                     [last.args EXCEPT !["direction"] = Str(T_asc)]).body.results

AscendingIsStable(r) ==
    /\ IsPermutationOfLoaded(r)
    /\ \A i, j \in 1..Len(r) : i < j =>
         /\ ~LexLess(SortKey(r[j]), SortKey(r[i]))
         /\ SameKey(SortKey(r[i]), SortKey(r[j])) => PosOf(r[i]) < PosOf(r[j])

\* C5 as stated: the ascending sort is stable, and the descending result is
\* the ascending result reversed as a whole, ties included.
C5_DescendingIsReversedAscending ==
    /\ SortedAnswer(T_asc) => AscendingIsStable(last.body.results)
    /\ SortedAnswer(T_desc) => last.body.results = Reverse(AscendingResults)

\* C5 amended: every ascending result is stable; every descending result is
\* ordered by key from greatest to least and Posts with equal keys keep
\* their Collection order in it too, so it is the reversed ascending result
\* only where no two Posts tie.
C5_BothDirectionsKeepTies ==
    /\ SortedAnswer(T_asc) => AscendingIsStable(last.body.results)
    /\ SortedAnswer(T_desc) =>
         LET r == last.body.results
         IN /\ IsPermutationOfLoaded(r)
            /\ \A i, j \in 1..Len(r) : i < j =>
                 /\ ~LexLess(SortKey(r[i]), SortKey(r[j]))
                 /\ SameKey(SortKey(r[i]), SortKey(r[j])) => PosOf(r[i]) < PosOf(r[j])

\* a descending sort by title was answered for two Posts whose titles tie
C5_Witness ==
    /\ SortedAnswer(T_desc)
    /\ Arg("sort") = Str(T_title)
    /\ \E i, j \in 1..Len(last.body.results) :
         /\ i < j
         /\ SameKey(SortKey(last.body.results[i]), SortKey(last.body.results[j]))

\* ----------------------------------------------------------------------- C6
HasValidDate(post) ==
    /\ "date" \in DOMAIN post
    /\ IsStr(post.date)
    /\ strptime_ymd(post.date.v).ok

\* C6: a query sorting by date never raises, and in ascending order every
\* Post whose date is missing or unparsable comes before every Post with a
\* valid YYYY-MM-DD date.
C6_DateSortNeverRaises ==
    (last.op = "get" /\ Arg("sort") = Str(T_date)) =>
        /\ last.status # 500
        /\ SortedAnswer(T_asc) =>
             \A i, j \in 1..Len(last.body.results) :
                (~HasValidDate(last.body.results[i]) /\ HasValidDate(last.body.results[j]))
                    => i < j

\* ----------------------------------------------------------------------- C4
IsPositiveInteger(v) == py_int(v).ok /\ py_int(v).n >= 1

\* every supplied value is one the handler accepts, sort and direction
\* coming together
AllSuppliedValid ==
    /\ ArgGiven("sort") <=> ArgGiven("direction")
    /\ ArgGiven("sort") => Arg("sort") \in valid_sort_fields
    /\ ArgGiven("direction") => Arg("direction") \in {Str(T_asc), Str(T_desc)}
    /\ ArgGiven("page") => IsPositiveInteger(Arg("page"))
    /\ ArgGiven("per_page") => IsPositiveInteger(Arg("per_page"))

\* C4: a query answers with the plain list, in Collection order, exactly
\* when none of sort, direction, page, per_page is supplied; when at least
\* one is supplied and every supplied value is valid it answers with the
\* page object, page defaulting to 1 and per_page to the size of the result
\* set (10 when it is empty), so that sort and direction alone give one page
\* holding every Post.
C4_ResponseShape ==
    last.op = "get" =>
        /\ (last.body.kind = "list") <=> (DOMAIN last.args = {})
        /\ last.body.kind = "list" =>
             (last.status = 200 /\ last.body.results = last.loaded)
        /\ (DOMAIN last.args # {} /\ AllSuppliedValid) =>
             /\ last.status = 200
             /\ last.body.kind = "page"
             /\ last.body.total_posts = Len(last.loaded)
             /\ last.body.current_page =
                  (IF ArgGiven("page") THEN py_int(Arg("page")).n ELSE 1)
             /\ last.body.per_page =
                  (IF ArgGiven("per_page") THEN py_int(Arg("per_page")).n
                   ELSE IF last.loaded = <<>> THEN 10 ELSE Len(last.loaded))
        /\ (DOMAIN last.args = {"sort", "direction"} /\ AllSuppliedValid) =>
             /\ IsPermutationOfLoaded(last.body.results)
             /\ last.body.total_pages <= 1

\* ----------------------------------------------------------------------- C7
\* the whole result set the pagination stage of the last query received
ResultSet ==
    IF ArgGiven("sort")
    THEN handle_posts_GET(posts_json, DEFAULT_POSTS,
                          [k \in {"sort", "direction"} |-> Arg(k)]).body.results
    ELSE last.loaded

BadNumber(k) == ArgGiven(k) /\ ~IsPositiveInteger(Arg(k))

\* C7: for integers page >= 1 and per_page >= 1 the results are the slice
\* [(page-1)*per_page, (page-1)*per_page + per_page) of the result set, at
\* most per_page long, total_pages is ceil(total / per_page), and a page
\* beyond total_pages is empty with total_posts unchanged; a page or
\* per_page that is no integer or is below 1 is answered with 400.
C7_Pagination ==
    last.op = "get" =>
        /\ last.body.kind = "page" =>
             LET b == last.body
                 total == Len(ResultSet)
                 first == (b.current_page - 1) * b.per_page
                 avail == IF total > first THEN total - first ELSE 0
                 n == IF avail < b.per_page THEN avail ELSE b.per_page
             IN /\ b.total_posts = total
                /\ b.results = [k \in 1..n |-> ResultSet[first + k]]
                /\ Len(b.results) <= b.per_page
                /\ b.total_pages * b.per_page >= total
                /\ (b.total_pages - 1) * b.per_page < total
                /\ b.current_page > b.total_pages => b.results = <<>>
        /\ (BadNumber("page") \/ BadNumber("per_page")) => last.status = 400

\* ---------------------------------------------------------------------- C10
\* C10: however the loads and saves of concurrent creates interleave, the
\* persisted Collection never holds two Posts with the same id.
C10_NoDuplicateIdUnderRaces ==
    posts_json.state = "json" =>
        \A i \in 1..Len(posts_json.doc) :
            \A j \in (i + 1)..Len(posts_json.doc) :
                posts_json.doc[i].id # posts_json.doc[j].id

====
